---- MODULE Spec2Model ----
(***************************************************************************)
(* Model of src/models/train_model.py: train_model and save_results.       *)
(* One run of train_model is a sequential process; pc is its position.     *)
(* The arguments of the call are drawn in Init and never change, except    *)
(* the local name seed, which the function itself overwrites.              *)
(***************************************************************************)
EXTENDS Integers, Sequences, FiniteSets, TLC

\* ---------------------------------------------------------------- bounds
MaxN == 3          \* dataset lengths 0..MaxN
MaxEpochs == 2     \* epochs argument 0..MaxEpochs
MaxBatch == 2      \* batch_size argument 1..MaxBatch
MaxSeed == 1       \* seed argument 0..MaxSeed
MaxSplitN == 40    \* dataset lengths 0..MaxSplitN when only the split is run

\* ------------------------------------------------- int(0.85 * len(train_set))
\* The literal 0.85 is the IEEE-754 double SplitMant / 2^53 with
\* SplitMant = 7656119366529843, held here in base-2^16 limbs, least
\* significant first.
SplitMant == <<13107, 13107, 13107, 27>>

Limb == 65536

\* number of binary digits of a natural number
RECURSIVE BitLen(_)
BitLen(n) == IF n = 0 THEN 0 ELSE 1 + BitLen(n \div 2)

RECURSIVE Pow2(_)
Pow2(k) == IF k = 0 THEN 1 ELSE 2 * Pow2(k - 1)

\* n * SplitMant as limbs <<l0, l1, l2, t3>>; t3 is the unreduced top limb
MantProduct(n) ==
  LET t0 == n * SplitMant[1]
      t1 == n * SplitMant[2] + (t0 \div Limb)
      t2 == n * SplitMant[3] + (t1 \div Limb)
      t3 == n * SplitMant[4] + (t2 \div Limb)
  IN  <<t0 % Limb, t1 % Limb, t2 % Limb, t3>>

\* int(0.85 * n): the exact product n * SplitMant / 2^53 is rounded to the
\* nearest double (53-bit significand, ties to even) and then truncated.
\* With q the integer part of the exact product, the rounded double reaches
\* q + 1 exactly when the exact product lies within half an ulp of q + 1.
TruncSplitProduct(n) ==
  LET p == MantProduct(n)
      q == p[4] \div 32
      nearTop == /\ q > 0
                 /\ p[4] % 32 = 31
                 /\ p[3] = Limb - 1
                 /\ p[2] = Limb - 1
                 /\ Limb - p[1] <= Pow2(BitLen(q) - 1)
  IN  IF nearTop THEN q + 1 ELSE q

\* ------------------------------------------------------ random generator
\* torch's default generator is a deterministic function of its seed.  Its
\* stream is represented by a full-period congruential generator on 0..15.
ManualSeed(s) == s % 16

NextGen(g) == (5 * g + 3) % 16

RemoveAt(s, i) == SubSeq(s, 1, i - 1) \o SubSeq(s, i + 1, Len(s))

\* a permutation of the sequence s drawn from generator state g
RECURSIVE Permute(_, _)
Permute(g, s) ==
  IF s = <<>> THEN <<>>
  ELSE LET i == (g % Len(s)) + 1
       IN  <<s[i]>> \o Permute(NextGen(g), RemoveAt(s, i))

RECURSIVE Advance(_, _)
Advance(g, k) == IF k = 0 THEN g ELSE Advance(NextGen(g), k - 1)

\* torch.randperm(n): indices 0..n-1 in generator order
RandPerm(g, n) == Permute(g, [i \in 1..n |-> i - 1])

Range(s) == {s[i] : i \in 1..Len(s)}

Min(a, b) == IF a < b THEN a ELSE b

\* len(DataLoader): number of batches of a pass, the last one may be short
NumBatches(n, b) == (n + b - 1) \div b

\* loss.item() of a batch, in arbitrary units: the negative log-likelihood
\* of log-probabilities is never negative; it is taken to be the number of
\* samples of the batch whose top class differs from the label
BatchLoss(b, h) == Len(b) - h

\* ------------------------------------------------------------------ state
VARIABLES
  N,                      \* len(train_set): samples in data/processed/training.pt
  epochs,                 \* argument epochs
  batch_size,             \* argument batch_size
  seedArg,                \* value the caller passed for seed
  trial,                  \* TRUE iff a trial handle was passed
  save_training_results,  \* argument save_training_results
  use_azure,              \* argument use_azure
  pc,                     \* position in train_model
  seed,                   \* the local name seed
  gen,                    \* state of torch's default generator
  np_seed,                \* <<s>> once np.random.seed(s) was called
  seedLog,                \* arguments of the torch.manual_seed calls so far
  train_data,             \* indices of the Training subset
  val_data,               \* indices of the Validation subset
  trainIter,              \* indices the running pass over trainloader still yields
  valIter,                \* indices the running pass over valoader still yields
  batch,                  \* the batch (images, labels) being processed
  hits,                   \* samples of the batch whose top class is the label
  built,                  \* TRUE once Classifier and optimizer exist
  mode,                   \* "train" or "eval": model.training
  grads,                  \* "none", "zeroed" or "computed": parameter gradients
  batchOps,               \* operations applied to the current training batch
  paramVersion,           \* number of optimizer steps applied to the parameters
  e,                      \* loop variable of the epoch loop, -1 before the loop
  train_loss, train_correct, val_loss, val_correct,
  train_losses, train_accuracies, val_losses, val_accuracies,
  reports,                \* calls trial.report received, in order
  pruneChecks,            \* number of trial.should_prune calls
  signalled,              \* TRUE once trial.should_prune returned True
  trainBatches,           \* training batches processed so far (optimizer steps aside)
  valBatches,             \* validation batches processed so far
  runLog,                 \* calls made on the Azure run context, in order
  saveCalls,              \* number of save_results calls
  files,                  \* artifacts written by save_results
  outcome                 \* how the call ended

inputs == <<N, epochs, batch_size, seedArg, trial, save_training_results,
            use_azure>>

rng == <<seed, gen, np_seed, seedLog>>

data == <<train_data, val_data>>

iters == <<trainIter, valIter, batch, hits>>

net == <<built, mode, grads, batchOps, paramVersion>>

sums == <<train_loss, train_correct, val_loss, val_correct>>

history == <<train_losses, train_accuracies, val_losses, val_accuracies>>

handle == <<reports, pruneChecks, signalled>>

counts == <<trainBatches, valBatches>>

sink == <<runLog, saveCalls, files>>

vars == <<inputs, pc, rng, data, iters, net, e, sums, history, handle, counts,
          sink, outcome>>

NoFiles == [model |-> <<>>, stats |-> <<>>, loss_fig |-> <<>>, acc_fig |-> <<>>]

Running == [kind |-> "running", exc |-> "", args |-> <<>>, value |-> <<>>]

Raised(name) == [kind |-> "raised", exc |-> name, args |-> <<>>, value |-> <<>>]

Returned(v) == [kind |-> "returned", exc |-> "", args |-> <<>>, value |-> <<v>>]

InitFor(sizes) ==
  /\ N \in sizes
  /\ epochs \in 0..MaxEpochs
  /\ batch_size \in 1..MaxBatch
  /\ seedArg \in 0..MaxSeed
  /\ trial \in BOOLEAN
  /\ save_training_results \in BOOLEAN
  /\ use_azure \in BOOLEAN
  /\ pc = "start"
  /\ seed = seedArg
  /\ gen = 1
  /\ np_seed = <<>>
  /\ seedLog = <<>>
  /\ train_data = <<>> /\ val_data = <<>>
  /\ trainIter = <<>> /\ valIter = <<>> /\ batch = <<>> /\ hits = 0
  /\ built = FALSE /\ mode = "none" /\ grads = "none"
  /\ batchOps = <<>> /\ paramVersion = 0
  /\ e = -1
  /\ train_loss = 0 /\ train_correct = 0 /\ val_loss = 0 /\ val_correct = 0
  /\ train_losses = <<>> /\ train_accuracies = <<>>
  /\ val_losses = <<>> /\ val_accuracies = <<>>
  /\ reports = <<>> /\ pruneChecks = 0 /\ signalled = FALSE
  /\ trainBatches = 0 /\ valBatches = 0
  /\ runLog = <<>> /\ saveCalls = 0 /\ files = NoFiles
  /\ outcome = Running

Init == InitFor(0..MaxN)

\* ---------------------------------------------------------------- preamble
\* variant: the argument is used as passed
SeedValueKeep(s) == s

\* lines 40-43: seed = 0; torch.manual_seed(seed); np.random.seed(seed)
SeedValue(s) == 0

SetSeed ==
  /\ pc = "start"
  /\ seed' = SeedValue(seed)
  /\ gen' = ManualSeed(seed')
  /\ np_seed' = <<seed'>>
  /\ seedLog' = Append(seedLog, seed')
  /\ pc' = "setup"
  /\ UNCHANGED <<inputs, data, iters, net, e, sums, history, handle, counts,
                 sink, outcome>>

\* lines 45-74: the Azure run context and its three scalars, the logger, and
\* the dataset of N samples
SetupRun ==
  /\ pc = "setup"
  /\ runLog' = IF use_azure
               THEN runLog \o <<"log:Learning rate", "log:Epochs", "log:Dropout">>
               ELSE runLog
  /\ pc' = "split"
  /\ UNCHANGED <<inputs, rng, data, iters, net, e, sums, history, handle,
                 counts, saveCalls, files, outcome>>

\* variant: round(0.85 * n) instead of int(0.85 * n)
TrainNRounded(n) == (85 * n + 50) \div 100

\* lines 77-78
TrainN(n) == TruncSplitProduct(n)

ValN(n) == n - TrainN(n)

\* line 79: random_split(train_set, [train_n, val_n]) cuts one permutation
\* of range(N) drawn from the default generator
RandomSplit(g, n, lengths) ==
  LET perm == RandPerm(g, n)
  IN  <<SubSeq(perm, 1, lengths[1]),
        SubSeq(perm, lengths[1] + 1, lengths[1] + lengths[2])>>

Split ==
  /\ pc = "split"
  /\ LET parts == RandomSplit(gen, N, <<TrainN(N), ValN(N)>>)
     IN  /\ train_data' = parts[1]
         /\ val_data' = parts[2]
  /\ gen' = Advance(gen, N)
  /\ pc' = "loaders"
  /\ UNCHANGED <<inputs, seed, np_seed, seedLog, iters, net, e, sums,
                 history, handle, counts, sink, outcome>>

\* lines 89-95: the two DataLoaders with shuffle=True.  A RandomSampler over
\* an empty subset is refused with ValueError by the torch releases that
\* check num_samples at construction and accepted by those that do not.
MakeLoaders ==
  /\ pc = "loaders"
  /\ \/ /\ pc' = "prefetch"
        /\ outcome' = outcome
     \/ /\ (Len(train_data) = 0 \/ Len(val_data) = 0)
        /\ pc' = "done"
        /\ outcome' = Raised("ValueError")
  /\ UNCHANGED <<inputs, rng, data, iters, net, e, sums, history, handle,
                 counts, sink>>

\* iter(loader) of a shuffling DataLoader: a fresh order from the generator
PassOrder(g, subset) == Permute(g, subset)

\* next(iterator): up to batch_size samples from the front
TakeBatch(it, b) == SubSeq(it, 1, Min(b, Len(it)))

DropBatch(it, b) == SubSeq(it, Min(b, Len(it)) + 1, Len(it))

\* lines 97-101: dataiter = iter(trainloader); dataiter.next()
\* variant: an iterator that never reports exhaustion
ExhaustedNever(subset) == FALSE

\* next() on the iterator of an empty loader raises StopIteration
Exhausted(subset) == Len(subset) = 0

Prefetch ==
  /\ pc = "prefetch"
  /\ gen' = NextGen(gen)
  /\ IF Exhausted(train_data)
     THEN /\ pc' = "done"
          /\ outcome' = Raised("StopIteration")
     ELSE /\ pc' = "build"
          /\ outcome' = outcome
  /\ UNCHANGED <<inputs, seed, np_seed, seedLog, data, iters, net, e, sums,
                 history, handle, counts, sink>>

\* lines 103-128: Classifier (a fresh nn.Module is in training mode),
\* criterion, optimizer, and the four empty lists
BuildModel ==
  /\ pc = "build"
  /\ built' = TRUE
  /\ mode' = "train"
  /\ grads' = "none"
  /\ paramVersion' = 0
  /\ batchOps' = <<>>
  /\ train_losses' = <<>> /\ train_accuracies' = <<>>
  /\ val_losses' = <<>> /\ val_accuracies' = <<>>
  /\ pc' = "epoch"
  /\ UNCHANGED <<inputs, rng, data, iters, e, sums, handle, counts, sink,
                 outcome>>

\* ------------------------------------------------------------ epoch loop
\* line 129: for e in range(epochs); lines 130-131 reset the training sums
ResetTrainSums == <<0, 0>>

\* variant: one epoch too many
LoopContinuesOffByOne(i, n) == i + 1 <= n

\* range(epochs) yields e + 1 as long as it is below epochs
LoopContinues(i, n) == i + 1 < n

EpochHead ==
  /\ pc = "epoch"
  /\ IF LoopContinues(e, epochs)
     THEN /\ e' = e + 1
          /\ train_loss' = ResetTrainSums[1]
          /\ train_correct' = ResetTrainSums[2]
          /\ pc' = "train_iter"
     ELSE /\ pc' = "dict"
          /\ UNCHANGED <<e, train_loss, train_correct>>
  /\ UNCHANGED <<inputs, rng, data, iters, net, val_loss, val_correct,
                 history, handle, counts, sink, outcome>>

\* line 133, entering the for statement: iter(trainloader)
TrainIter ==
  /\ pc = "train_iter"
  /\ trainIter' = PassOrder(gen, train_data)
  /\ gen' = NextGen(gen)
  /\ pc' = "train_next"
  /\ UNCHANGED <<inputs, seed, np_seed, seedLog, data, valIter, batch, hits,
                 net, e, sums, history, handle, counts, sink, outcome>>

\* lines 133-135: the next training batch, or the else clause when the
\* pass is exhausted
TrainNext ==
  /\ pc = "train_next"
  /\ IF trainIter = <<>>
     THEN /\ pc' = "val_init"
          /\ UNCHANGED <<iters, batchOps>>
     ELSE /\ batch' = TakeBatch(trainIter, batch_size)
          /\ trainIter' = DropBatch(trainIter, batch_size)
          /\ batchOps' = <<>>
          /\ UNCHANGED <<valIter, hits>>
          /\ pc' = "train_mode"
  /\ UNCHANGED <<inputs, rng, data, built, mode, grads, paramVersion, e, sums,
                 history, handle, counts, sink, outcome>>

\* variant: no model.train() call inside the batch loop
BatchModeKeep == mode

\* line 139: model.train()
BatchMode == "train"

TrainMode ==
  /\ pc = "train_mode"
  /\ mode' = BatchMode
  /\ pc' = "zero_grad"
  /\ UNCHANGED <<inputs, rng, data, iters, built, grads, batchOps,
                 paramVersion, e, sums, history, handle, counts, sink, outcome>>

\* line 140: optimizer.zero_grad()
ZeroGrad ==
  /\ pc = "zero_grad"
  /\ grads' = "zeroed"
  /\ batchOps' = Append(batchOps, "zero_grad")
  /\ pc' = "forward"
  /\ UNCHANGED <<inputs, rng, data, iters, built, mode, paramVersion, e, sums,
                 history, handle, counts, sink, outcome>>

\* lines 143-148: forward pass, loss, train_loss += loss.item().  The
\* output gives each sample one top class, which equals its label for
\* between 0 and len(batch) samples.
Forward ==
  /\ pc = "forward"
  /\ \E h \in 0..Len(batch) :
       /\ hits' = h
       /\ train_loss' = train_loss + BatchLoss(batch, h)
  /\ batchOps' = Append(batchOps, "forward:" \o mode)
  /\ pc' = "backward"
  /\ UNCHANGED <<inputs, rng, data, trainIter, valIter, batch, built, mode,
                 grads, paramVersion, e, train_correct, val_loss, val_correct,
                 history, handle, counts, sink, outcome>>

\* line 152: loss.backward()
Backward ==
  /\ pc = "backward"
  /\ grads' = "computed"
  /\ batchOps' = Append(batchOps, "backward")
  /\ pc' = "step"
  /\ UNCHANGED <<inputs, rng, data, iters, built, mode, paramVersion, e, sums,
                 history, handle, counts, sink, outcome>>

\* line 155: optimizer.step()
Step ==
  /\ pc = "step"
  /\ paramVersion' = paramVersion + 1
  /\ batchOps' = Append(batchOps, "step:" \o mode)
  /\ pc' = "count"
  /\ UNCHANGED <<inputs, rng, data, iters, built, mode, grads, e, sums,
                 history, handle, counts, sink, outcome>>

\* lines 158-160: train_correct += equals.sum()
CountCorrect ==
  /\ pc = "count"
  /\ train_correct' = train_correct + hits
  /\ trainBatches' = trainBatches + 1
  /\ pc' = "train_next"
  /\ UNCHANGED <<inputs, rng, data, iters, net, e, train_loss, val_loss,
                 val_correct, history, handle, valBatches, sink, outcome>>

\* lines 163-169: the else clause resets the validation sums, switches the
\* model to evaluation mode and starts a pass over valoader
\* variant: the validation sums initialised once, outside the epoch loop
ResetValSumsKeep(l, c) == <<l, c>>

\* lines 163-164: val_loss = 0; val_correct = 0
ResetValSums(l, c) == <<0, 0>>


ValInit ==
  /\ pc = "val_init"
  /\ val_loss' = ResetValSums(val_loss, val_correct)[1]
  /\ val_correct' = ResetValSums(val_loss, val_correct)[2]
  /\ mode' = "eval"
  /\ valIter' = PassOrder(gen, val_data)
  /\ gen' = NextGen(gen)
  /\ pc' = "val_next"
  /\ UNCHANGED <<inputs, seed, np_seed, seedLog, data, trainIter, batch, hits,
                 built, grads, batchOps, paramVersion, e, train_loss,
                 train_correct, history, handle, counts, sink, outcome>>

\* lines 169-181: one validation batch: forward pass, loss and correct count
ValBatch ==
  /\ pc = "val_next"
  /\ valIter # <<>>
  /\ batch' = TakeBatch(valIter, batch_size)
  /\ valIter' = DropBatch(valIter, batch_size)
  /\ batchOps' = <<"forward:" \o mode>>
  /\ \E h \in 0..Len(batch') :
       /\ hits' = h
       /\ val_loss' = val_loss + BatchLoss(batch', h)
       /\ val_correct' = val_correct + h
  /\ valBatches' = valBatches + 1
  /\ UNCHANGED <<inputs, pc, rng, data, trainIter, built, mode, grads,
                 paramVersion, e, train_loss, train_correct, history, handle,
                 trainBatches, sink, outcome>>

\* a quotient a / b of two numbers, kept as the pair <<a, b>>
Quot(a, b) == <<a, b>>

\* lines 184-197: the four appends (a division by len(...) = 0 raises
\* ZeroDivisionError), the log line, and the test of trial
Finalize ==
  /\ pc = "val_next"
  /\ valIter = <<>>
  /\ LET nt == NumBatches(Len(train_data), batch_size)
         nv == NumBatches(Len(val_data), batch_size)
     IN  IF nt = 0 \/ nv = 0 \/ Len(train_data) = 0 \/ Len(val_data) = 0
         THEN /\ pc' = "done"
              /\ outcome' = Raised("ZeroDivisionError")
              /\ UNCHANGED history
         ELSE /\ train_losses' = Append(train_losses, Quot(train_loss, nt))
              /\ train_accuracies' =
                   Append(train_accuracies, Quot(train_correct, Len(train_data)))
              /\ val_losses' = Append(val_losses, Quot(val_loss, nv))
              /\ val_accuracies' =
                   Append(val_accuracies, Quot(val_correct, Len(val_data)))
              /\ pc' = IF trial THEN "report" ELSE "epoch"
              /\ outcome' = outcome
  /\ UNCHANGED <<inputs, rng, data, iters, net, e, sums, handle, counts, sink>>

\* line 199: trial.report(val_accuracies[-1], e)
\* variant: reporting the one-based epoch number of the log line
ReportArgsOneBased ==
  [value |-> val_accuracies[Len(val_accuracies)], step |-> e + 1]

ReportArgs == [value |-> val_accuracies[Len(val_accuracies)], step |-> e]

Report ==
  /\ pc = "report"
  /\ reports' = Append(reports, ReportArgs)
  /\ pc' = "prune"
  /\ UNCHANGED <<inputs, rng, data, iters, net, e, sums, history, pruneChecks,
                 signalled, counts, sink, outcome>>

\* lines 206-211: the dictionary of the four lists
TrainValDict ==
  [train_losses |-> train_losses, train_accuracies |-> train_accuracies,
   val_losses |-> val_losses, val_accuracies |-> val_accuracies]

\* variant: leaving the epoch loop with break instead of raising
PruneExitBreak == [pc |-> "dict", outcome |-> outcome]

\* variant: raising TrialPruned(train_val_dict)
PruneExitWithHistory ==
  [pc |-> "done",
   outcome |-> [kind |-> "raised", exc |-> "TrialPruned",
                args |-> <<TrainValDict>>, value |-> <<>>]]

\* lines 202-203: if trial.should_prune(): raise optuna.TrialPruned()
PruneExit == [pc |-> "done", outcome |-> Raised("TrialPruned")]

ShouldPrune ==
  /\ pc = "prune"
  /\ pruneChecks' = pruneChecks + 1
  /\ \E prune \in BOOLEAN :
       /\ signalled' = prune
       /\ IF prune
          THEN /\ pc' = PruneExit.pc
               /\ outcome' = PruneExit.outcome
          ELSE /\ pc' = "epoch"
               /\ outcome' = outcome
  /\ UNCHANGED <<inputs, rng, data, iters, net, e, sums, history, reports,
                 counts, sink>>

\* ------------------------------------------------------------ after the loop
\* variant: saving only a non-empty history
SaveWantedNonEmpty == save_training_results /\ train_losses # <<>>

\* line 213: if save_training_results
SaveWanted == save_training_results

BuildDict ==
  /\ pc = "dict"
  /\ pc' = IF SaveWanted THEN "save" ELSE "complete"
  /\ UNCHANGED <<inputs, rng, data, iters, net, e, sums, history, handle,
                 counts, sink, outcome>>

\* lines 244-271: the output root is the project directory, or ./outputs
\* when running on Azure
OutputRoot == IF use_azure THEN "./outputs" ELSE "project_dir"

\* lines 214-223 and 232-307: save_results writes the state_dict, the
\* pickled dictionary and the two figures, and forwards the series and the
\* figures to the Azure run when there is one
SaveResults ==
  /\ pc = "save"
  /\ saveCalls' = saveCalls + 1
  /\ files' = [model |-> <<OutputRoot, paramVersion>>,
               stats |-> <<OutputRoot, TrainValDict>>,
               loss_fig |-> <<OutputRoot, train_losses, val_losses>>,
               acc_fig |-> <<OutputRoot, train_accuracies, val_accuracies>>]
  /\ runLog' = IF use_azure
               THEN runLog \o <<"log_list:Train loss", "log_list:Train accuracy",
                               "log_list:Validation loss",
                               "log_list:Validation accuracy",
                               "log_image:Training loss curve",
                               "log_image:Training accuracy curve">>
               ELSE runLog
  /\ pc' = "complete"
  /\ UNCHANGED <<inputs, rng, data, iters, net, e, sums, history, handle,
                 counts, outcome>>

\* lines 225-229: run.complete() on Azure without a trial; return
Complete ==
  /\ pc = "complete"
  /\ runLog' = IF use_azure /\ ~trial THEN Append(runLog, "complete") ELSE runLog
  /\ outcome' = Returned(TrainValDict)
  /\ pc' = "done"
  /\ UNCHANGED <<inputs, rng, data, iters, net, e, sums, history, handle,
                 counts, saveCalls, files>>

Next ==
  \/ SetSeed \/ SetupRun \/ Split \/ MakeLoaders \/ Prefetch \/ BuildModel
  \/ EpochHead \/ TrainIter \/ TrainNext \/ TrainMode \/ ZeroGrad \/ Forward
  \/ Backward \/ Step \/ CountCorrect \/ ValInit \/ ValBatch \/ Finalize
  \/ Report \/ ShouldPrune \/ BuildDict \/ SaveResults \/ Complete

Spec == Init /\ [][Next]_vars

\* lines 40-81 alone, the run up to and including the split, over a wider
\* range of dataset lengths
InitSplit == InitFor(0..MaxSplitN)

NextSplit == SetSeed \/ SetupRun \/ Split

SplitSpec == InitSplit /\ [][NextSplit]_vars

\* ------------------------------------------------------------ properties
HistoryLen == Len(train_losses)

IsPrefix(s, t) == Len(s) <= Len(t) /\ SubSeq(t, 1, Len(s)) = s

Pruned == outcome = Raised("TrialPruned")

EmptyDict ==
  [train_losses |-> <<>>, train_accuracies |-> <<>>,
   val_losses |-> <<>>, val_accuracies |-> <<>>]

\* C1 as stated: a returned run has epochs entries per list, and a run
\* pruned at the epoch with index e has e entries.
C1_AsClaimed ==
  /\ (outcome.kind = "returned" => HistoryLen = epochs)
  /\ (signalled => HistoryLen = e)

C1_Lengths ==
  /\ Len(train_accuracies) = HistoryLen
  /\ Len(val_losses) = HistoryLen
  /\ Len(val_accuracies) = HistoryLen
  /\ (outcome.kind = "returned" => ~signalled /\ HistoryLen = epochs)
  /\ (signalled => Pruned /\ HistoryLen = e + 1)

C1_AppendOnly ==
  /\ IsPrefix(train_losses, train_losses')
  /\ IsPrefix(train_accuracies, train_accuracies')
  /\ IsPrefix(val_losses, val_losses')
  /\ IsPrefix(val_accuracies, val_accuracies')
  /\ Len(train_losses') <= HistoryLen + 1

\* C1 (amended): the four lists always have one common length and only grow
\* by appending one entry; a run that returns has exactly epochs entries and
\* was never told to prune; a run told to prune after the epoch with
\* zero-based index e aborts with e + 1 entries.
C1_MetricHistory == []C1_Lengths /\ [][C1_AppendOnly]_vars

C1_Witness == signalled /\ Pruned /\ e = 1 /\ HistoryLen = 2

C2_Aborted ==
  signalled =>
    /\ trial
    /\ pc = "done"
    /\ Pruned
    /\ HistoryLen = e + 1
    /\ pruneChecks = e + 1
    /\ trainBatches = (e + 1) * NumBatches(Len(train_data), batch_size)
    /\ valBatches = (e + 1) * NumBatches(Len(val_data), batch_size)
    /\ paramVersion = trainBatches
    /\ saveCalls = 0
    /\ files = NoFiles

C2_NoLaterStep == signalled => UNCHANGED vars

\* C2: once should_prune has returned true after the epoch with index e, the
\* call has ended with TrialPruned, exactly e + 1 epochs of training and
\* validation batches have been processed, nothing was saved, and the run
\* takes no further step.
C2_PruneAbort == []C2_Aborted /\ [][C2_NoLaterStep]_vars

C2_Witness ==
  signalled /\ Pruned /\ e = 0 /\ epochs = 2 /\ save_training_results

\* C3 as stated: a pruned run hands its partial history to the caller, in
\* the exception or as the return value.
C3_AsClaimed ==
  signalled =>
    (outcome.args = <<TrainValDict>> \/ outcome.value = <<TrainValDict>>)

\* C3 (amended): a pruned run raises TrialPruned without arguments and
\* returns no value, so the lists are not handed to the caller; what the
\* caller keeps are the val_accuracy values already reported to its handle,
\* one per completed epoch.
C3_PrunedCarriesNothing ==
  signalled =>
    /\ outcome.kind = "raised"
    /\ outcome.exc = "TrialPruned"
    /\ outcome.args = <<>>
    /\ outcome.value = <<>>
    /\ Len(reports) = Len(val_accuracies)
    /\ \A i \in 1..Len(reports) : reports[i].value = val_accuracies[i]

C3_Witness == signalled /\ Pruned /\ HistoryLen = 2 /\ outcome.args = <<>>

DefaultOptions ==
  /\ ~trial
  /\ save_training_results
  /\ ~use_azure
  /\ seedArg = 0

\* C4 as stated: with epochs = 0 and default options the call returns an
\* empty history and writes nothing.
C4_AsClaimed ==
  (epochs = 0 /\ DefaultOptions /\ outcome.kind = "returned") =>
    /\ outcome.value = <<EmptyDict>>
    /\ saveCalls = 0
    /\ files = NoFiles

\* C4 (amended): with epochs = 0 and default options a call that returns
\* returns an empty history, has processed no batch, and has called
\* save_results once, which wrote the untrained weights, the empty
\* dictionary and both figures under the project directory.
C4_ZeroEpochs ==
  (epochs = 0 /\ DefaultOptions /\ outcome.kind = "returned") =>
    /\ outcome.value = <<EmptyDict>>
    /\ trainBatches = 0 /\ valBatches = 0 /\ paramVersion = 0
    /\ saveCalls = 1
    /\ files = [model |-> <<"project_dir", 0>>,
                stats |-> <<"project_dir", EmptyDict>>,
                loss_fig |-> <<"project_dir", <<>>, <<>> >>,
                acc_fig |-> <<"project_dir", <<>>, <<>> >>]

C4_Witness ==
  epochs = 0 /\ DefaultOptions /\ outcome.kind = "returned" /\ saveCalls = 1

PastSplit == pc \notin {"start", "setup", "split"}

NoRepeats(s) == \A i, j \in 1..Len(s) : s[i] = s[j] => i = j

\* C5: for N >= 2, after the split the Training subset has floor(0.85 N)
\* indices and the Validation subset the remaining N - floor(0.85 N); no
\* index occurs twice and together they are exactly 0..N-1.
C5_Partition ==
  (PastSplit /\ N >= 2) =>
    /\ Len(train_data) = (85 * N) \div 100
    /\ Len(val_data) = N - (85 * N) \div 100
    /\ NoRepeats(train_data) /\ NoRepeats(val_data)
    /\ Range(train_data) \cap Range(val_data) = {}
    /\ Range(train_data) \cup Range(val_data) = 0..(N - 1)

C5_Witness ==
  pc = "loaders" /\ N = 20 /\ Len(train_data) = 17 /\ Len(val_data) = 3

\* C6 as stated: with N < 2 the run has failed with InvalidSplitError as soon
\* as the split step is over.
C6_AsClaimed ==
  (N < 2 /\ PastSplit) => outcome = Raised("InvalidSplitError")

\* C6 (amended): with N < 2 the split itself succeeds and leaves an empty
\* Training subset; the run then fails with ValueError when the loaders are
\* made or with StopIteration when the first batch is fetched, before the
\* model is built and before any batch is processed; the model is never
\* built over an empty subset.
C6_SmallDataset ==
  /\ N < 2 =>
       /\ pc \in {"start", "setup", "split", "loaders", "prefetch", "done"}
       /\ ~built
       /\ trainBatches = 0 /\ valBatches = 0 /\ paramVersion = 0
       /\ HistoryLen = 0
       /\ (pc \in {"loaders", "prefetch"} =>
             outcome = Running /\ Len(train_data) = 0 /\ Len(val_data) = N)
       /\ (pc = "done" =>
             outcome \in {Raised("ValueError"), Raised("StopIteration")})
  /\ built => (Len(train_data) > 0 /\ Len(val_data) > 0)

C6_Witness ==
  N = 1 /\ pc = "done" /\ outcome = Raised("StopIteration") /\ Len(val_data) = 1

InUnit(q) == q[2] > 0 /\ 0 <= q[1] /\ q[1] <= q[2]

NonNegative(q) == q[2] > 0 /\ q[1] >= 0

C7_Ranges ==
  /\ \A i \in 1..HistoryLen :
       /\ InUnit(train_accuracies[i])
       /\ InUnit(val_accuracies[i])
       /\ NonNegative(train_losses[i])
       /\ NonNegative(val_losses[i])
  /\ 0 <= train_correct /\ train_correct <= Len(train_data)
  /\ 0 <= val_correct /\ val_correct <= Len(val_data)

C7_Counters ==
  /\ (pc = "epoch" /\ pc' = "train_iter") => train_correct' = 0
  /\ (pc = "val_init") => val_correct' = 0
  /\ (pc # "epoch") =>
       (train_correct <= train_correct' /\
        train_correct' <= train_correct + batch_size)
  /\ (pc # "val_init") =>
       (val_correct <= val_correct' /\ val_correct' <= val_correct + batch_size)

\* C7: every recorded accuracy is a quotient between 0 and 1 and every
\* recorded loss is non-negative; each correct counter is set to 0 when its
\* phase starts in every epoch, grows by at most batch_size per batch and
\* never exceeds the size of its subset.
C7_MetricRange == []C7_Ranges /\ [][C7_Counters]_vars

C7_Witness ==
  /\ HistoryLen = 2
  /\ val_accuracies[1] = <<1, 1>> /\ val_accuracies[2] = <<1, 1>>
  /\ train_accuracies[1] = <<2, 2>> /\ train_accuracies[2] = <<2, 2>>

BatchPositions ==
  {"train_iter", "train_next", "train_mode", "zero_grad", "forward",
   "backward", "step", "count", "val_init", "val_next"}

C8_Reports ==
  /\ ~trial => (reports = <<>> /\ pruneChecks = 0)
  /\ \A i \in 1..Len(reports) :
       reports[i] = [value |-> val_accuracies[i], step |-> i - 1]
  /\ Len(reports) = IF trial /\ pc = "report" THEN HistoryLen - 1 ELSE
                    IF trial THEN HistoryLen ELSE 0
  /\ pruneChecks = IF pc = "prune" THEN Len(reports) - 1 ELSE Len(reports)
  /\ (pc \in BatchPositions /\ trial) =>
       (Len(reports) = e /\ pruneChecks = e)

C8_Order ==
  /\ reports' # reports =>
       (pc = "report" /\ pc' = "prune" /\ HistoryLen = e + 1)
  /\ pruneChecks' # pruneChecks =>
       (pc = "prune" /\ Len(reports) = e + 1 /\ pruneChecks = e)

\* C8: with a trial handle, report i carries the index i-1 and the
\* val_accuracy appended for that epoch, is made after the append and before
\* any batch of the next epoch, and is followed directly by the single
\* should_prune call of that epoch; without a handle neither is ever called.
C8_ReportPerEpoch == []C8_Reports /\ [][C8_Order]_vars

C8_Witness ==
  trial /\ pc = "done" /\ Len(reports) = 2 /\ pruneChecks = 2 /\ ~signalled

C9_Modes ==
  /\ (pc \in {"zero_grad", "forward", "backward", "step", "count"}) =>
       mode = "train"
  /\ (pc = "val_next") => mode = "eval"
  /\ paramVersion = trainBatches + (IF pc = "count" THEN 1 ELSE 0)

C9_Steps ==
  /\ paramVersion' # paramVersion =>
       /\ pc = "step"
       /\ mode = "train"
       /\ grads = "computed"
       /\ batchOps = <<"zero_grad", "forward:train", "backward">>
       /\ paramVersion' = paramVersion + 1
  /\ valBatches' # valBatches =>
       /\ mode = "eval"
       /\ batchOps' = <<"forward:eval">>
       /\ paramVersion' = paramVersion

\* C9: the parameters change only in an optimizer step, taken in training
\* mode after zero_grad, forward and backward of the same batch in that
\* order; every validation forward pass runs in evaluation mode and changes
\* no parameter.
C9_TrainEvalDiscipline == []C9_Modes /\ [][C9_Steps]_vars

C9_Witness == e = 1 /\ pc = "count" /\ mode = "train" /\ valBatches > 0

\* C10: whatever was passed for seed, the generators are seeded once, with
\* 0, before the split, and the two subsets are the ones seed 0 gives for N.
C10_SeedIgnored ==
  /\ pc # "start" => (seed = 0 /\ seedLog = <<0>> /\ np_seed = <<0>>)
  /\ pc = "start" => seedLog = <<>>
  /\ PastSplit =>
       <<train_data, val_data>> =
         RandomSplit(ManualSeed(0), N, <<TrainN(N), ValN(N)>>)

C10_Witness ==
  seedArg = 1 /\ pc = "done" /\ N = 3 /\ outcome.kind = "returned" /\ e = 1

====
